---- MODULE Spec2Model ----
(***************************************************************************)
(* Model of stui (src/main.go): the fan-out/fan-in aggregation of three    *)
(* chat-completion calls into model.content, the progress value            *)
(* model.percent, and the bubbletea Update loop that polls them.           *)
(*                                                                         *)
(* percent is a float64 in the program; here it is counted in hundredths   *)
(* (0.33 -> 33, 1.0 -> 100, 0.01 -> 1).  Every goroutine step is one read  *)
(* or one write of shared memory, so that the unsynchronised accesses of   *)
(* the program interleave as the Go memory model allows.  A step that      *)
(* takes m.mu also makes the first read of its critical section, and the   *)
(* step that makes the last write also releases it and runs the deferred   *)
(* wg.Done.                                                                *)
(*                                                                         *)
(* Not kept: m.viewport (TickView is the step that reads m.content to      *)
(* render it) and m.MusicInfo (the prompts and the link tokens are pure    *)
(* functions of it).  Blocks of m.content carry the cycle that appended    *)
(* them.                                                                   *)
(***************************************************************************)
EXTENDS Integers, Sequences, FiniteSets, TLC

\* ---- bounds of the model --------------------------------------------------
MaxRefresh == 1          \* ctrl+r presses that are explored
MaxTicks == 2            \* tick messages that are explored
MaxStale == 0            \* calls in flight when ctrl+r is pressed

\* ---- program constants (hundredths) ---------------------------------------
NumSearches == 3         \* len(searches) in getInfo
SuccessInc == 33         \* m.percent += 0.33
FailInc == 100           \* m.percent += 1.0
TickInc == 1             \* m.percent += 0.01
Full == 100              \* the 1.0 of  m.percent >= 1.0

MaxCycles == MaxRefresh + 1
Cycles == 1..MaxCycles
Workers == 1..NumSearches

searches ==
  << "## Album info and credits", "## Album review", "## Song info" >>
LinksTitle == "## Links"
ErrText == "  openai api: error"

\* holders of m.mu
Free == << "free", 0, 0 >>
UI == << "ui", 0, 0 >>
W(c, i) == << "w", c, i >>
Agg(c) == << "agg", c, 0 >>

Section(c, i) == [cyc |-> c, title |-> searches[i]]
LinksBlock(c) == [cyc |-> c, title |-> LinksTitle]

VARIABLES
  percent,       \* m.percent, in hundredths
  content,       \* m.content, as the sequence of blocks appended to it
  errMsg,        \* m.errMsg
  loading,       \* m.loading
  mu,            \* holder of m.mu
  wpc,           \* wpc[c][i]: position of DoOpenAIRequest i of cycle c
  wtmp,          \* wtmp[c][i]: value of m.percent a worker has read
  wdoc,          \* wdoc[c][i]: value of m.content a worker has read
  apc,           \* apc[c]: position of getInfo of cycle c
  adoc,          \* adoc[c]: value of m.content getInfo has read
  wg,            \* wg[c]: counter of getInfo's sync.WaitGroup
  uipc,          \* position of the Update handler being run
  uitmp,         \* value of m.percent the tick handler has read
  ticksPending,  \* tea.Tick timers that have not fired yet
  ticksHandled,  \* tick messages handled so far
  cycle,         \* getInfo goroutines started so far
  proc,          \* "running", "quit" (tea.Quit) or "exit1" (os.Exit(1))
  name,          \* getInfo: the m.artist, m.track or m.album it sanitizes
  nameQuery,     \* getInfo: bandNameQuery, songNameQuery or albumNameQuery
  qpc,           \* position in the sanitizing of name
  metaAlbumName, \* getSpotifyTrackInfo: metadata.AlbumName
  albumName,     \* getSpotifyTrackInfo: albumName
  tpc            \* position in the normalizing of albumName

\* strings are sequences of characters
linkVars == << name, nameQuery, qpc >>
albumVars == << metaAlbumName, albumName, tpc >>

\* the state of the running program
programVars ==
  << percent, content, errMsg, loading, mu, wpc, wtmp, wdoc, apc, adoc, wg,
     uipc, uitmp, ticksPending, ticksHandled, cycle, proc >>

vars == << programVars, linkVars, albumVars >>

shared == << percent, content, errMsg >>
workerVars == << wpc, wtmp, wdoc >>
aggVars == << apc, adoc >>
uiVars == << loading, uipc, uitmp, ticksPending, ticksHandled >>

\* ---- main ------------------------------------------------------------------
ProgramInit ==
  /\ percent = 0
  /\ content = << >>
  /\ errMsg = ""
  /\ loading = TRUE
  /\ mu = Free
  /\ wpc = [c \in Cycles |-> [i \in Workers |-> "none"]]
  /\ wtmp = [c \in Cycles |-> [i \in Workers |-> 0]]
  /\ wdoc = [c \in Cycles |-> [i \in Workers |-> << >>]]
  /\ apc = [c \in Cycles |-> IF c = 1 THEN "start" ELSE "none"]
  /\ adoc = [c \in Cycles |-> << >>]
  /\ wg = [c \in Cycles |-> 0]
  /\ uipc = "idle"
  /\ uitmp = 0
  /\ ticksPending = 1
  /\ ticksHandled = 0
  /\ cycle = 1
  /\ proc = "running"

\* Spec follows the goroutines, not the strings they format: the two string
\* computations are followed by LinkSpec and AlbumSpec.
LinkIdle == name = << >> /\ nameQuery = << >> /\ qpc = "idle"
AlbumIdle == metaAlbumName = << >> /\ albumName = << >> /\ tpc = "idle"

Init == ProgramInit /\ LinkIdle /\ AlbumIdle

\* ---- getInfo ---------------------------------------------------------------
Dispatch(c) ==
  /\ proc = "running"
  /\ UNCHANGED << linkVars, albumVars >>
  /\ apc[c] = "start"
  /\ apc' = [apc EXCEPT ![c] = "wait"]
  /\ wg' = [wg EXCEPT ![c] = NumSearches]
  /\ wpc' = [wpc EXCEPT ![c] = [i \in Workers |-> "call"]]
  /\ UNCHANGED << shared, uiVars, mu, wtmp, wdoc, adoc, cycle, proc >>

Join(c) ==
  /\ proc = "running"
  /\ UNCHANGED << linkVars, albumVars >>
  /\ apc[c] = "wait"
  /\ wg[c] = 0
  /\ apc' = [apc EXCEPT ![c] = "links"]
  /\ UNCHANGED << shared, uiVars, mu, workerVars, adoc, wg, cycle, proc >>

LinksLock(c) ==
  /\ proc = "running"
  /\ UNCHANGED << linkVars, albumVars >>
  /\ apc[c] = "links"
  /\ mu = Free
  /\ mu' = Agg(c)
  /\ adoc' = [adoc EXCEPT ![c] = content]
  /\ apc' = [apc EXCEPT ![c] = "linksWr"]
  /\ UNCHANGED << shared, uiVars, workerVars, wg, cycle, proc >>

LinksAppend(c) ==
  /\ proc = "running"
  /\ UNCHANGED << linkVars, albumVars >>
  /\ apc[c] = "linksWr"
  /\ content' = Append(adoc[c], LinksBlock(c))
  /\ mu' = Free
  /\ adoc' = [adoc EXCEPT ![c] = << >>]
  /\ apc' = [apc EXCEPT ![c] = "done"]
  /\ UNCHANGED << percent, errMsg, uiVars, workerVars, wg, cycle, proc >>

\* ---- DoOpenAIRequest -------------------------------------------------------
CallFail(c, i) ==
  /\ proc = "running"
  /\ UNCHANGED << linkVars, albumVars >>
  /\ wpc[c][i] = "call"
  /\ errMsg' = ErrText
  /\ wtmp' = [wtmp EXCEPT ![c][i] = percent]
  /\ wpc' = [wpc EXCEPT ![c][i] = "failWr"]
  /\ UNCHANGED << percent, content, uiVars, mu, wdoc, aggVars, wg, cycle,
                  proc >>

\* the failure return without wg.Done
FailWriteNoDone(c, i) ==
  /\ proc = "running"
  /\ UNCHANGED << linkVars, albumVars >>
  /\ wpc[c][i] = "failWr"
  /\ percent' = wtmp[c][i] + FailInc
  /\ wtmp' = [wtmp EXCEPT ![c][i] = 0]
  /\ wpc' = [wpc EXCEPT ![c][i] = "failed"]
  /\ UNCHANGED << content, errMsg, uiVars, mu, wdoc, aggVars, wg, cycle,
                  proc >>

\* the failure path that issues the call again instead of returning
FailWriteRetry(c, i) ==
  /\ proc = "running"
  /\ UNCHANGED << linkVars, albumVars >>
  /\ wpc[c][i] = "failWr"
  /\ percent' = wtmp[c][i] + FailInc
  /\ wtmp' = [wtmp EXCEPT ![c][i] = 0]
  /\ wpc' = [wpc EXCEPT ![c][i] = "call"]
  /\ UNCHANGED << content, errMsg, uiVars, mu, wdoc, aggVars, wg, cycle,
                  proc >>

FailWrite(c, i) ==
  /\ proc = "running"
  /\ UNCHANGED << linkVars, albumVars >>
  /\ wpc[c][i] = "failWr"
  /\ percent' = wtmp[c][i] + FailInc
  /\ wtmp' = [wtmp EXCEPT ![c][i] = 0]
  /\ wg' = [wg EXCEPT ![c] = @ - 1]
  /\ wpc' = [wpc EXCEPT ![c][i] = "failed"]
  /\ UNCHANGED << content, errMsg, uiVars, mu, wdoc, aggVars, cycle, proc >>

CallOk(c, i) ==
  /\ proc = "running"
  /\ UNCHANGED << linkVars, albumVars >>
  /\ wpc[c][i] = "call"
  /\ mu = Free
  /\ mu' = W(c, i)
  /\ wtmp' = [wtmp EXCEPT ![c][i] = percent]
  /\ wpc' = [wpc EXCEPT ![c][i] = "wrP"]
  /\ UNCHANGED << shared, uiVars, wdoc, aggVars, wg, cycle, proc >>

OkWritePercent(c, i) ==
  /\ proc = "running"
  /\ UNCHANGED << linkVars, albumVars >>
  /\ wpc[c][i] = "wrP"
  /\ percent' = wtmp[c][i] + SuccessInc
  /\ wtmp' = [wtmp EXCEPT ![c][i] = 0]
  /\ wpc' = [wpc EXCEPT ![c][i] = "rdC"]
  /\ UNCHANGED << content, errMsg, uiVars, mu, wdoc, aggVars, wg, cycle,
                  proc >>

OkReadContent(c, i) ==
  /\ proc = "running"
  /\ UNCHANGED << linkVars, albumVars >>
  /\ wpc[c][i] = "rdC"
  /\ wdoc' = [wdoc EXCEPT ![c][i] = content]
  /\ wpc' = [wpc EXCEPT ![c][i] = "wrC"]
  /\ UNCHANGED << shared, uiVars, mu, wtmp, aggVars, wg, cycle, proc >>

\* the success return without m.mu.Unlock
OkWriteContentNoUnlock(c, i) ==
  /\ proc = "running"
  /\ UNCHANGED << linkVars, albumVars >>
  /\ wpc[c][i] = "wrC"
  /\ content' = Append(wdoc[c][i], Section(c, i))
  /\ wdoc' = [wdoc EXCEPT ![c][i] = << >>]
  /\ wg' = [wg EXCEPT ![c] = @ - 1]
  /\ wpc' = [wpc EXCEPT ![c][i] = "done"]
  /\ UNCHANGED << percent, errMsg, uiVars, mu, wtmp, aggVars, cycle, proc >>

OkWriteContent(c, i) ==
  /\ proc = "running"
  /\ UNCHANGED << linkVars, albumVars >>
  /\ wpc[c][i] = "wrC"
  /\ content' = Append(wdoc[c][i], Section(c, i))
  /\ wdoc' = [wdoc EXCEPT ![c][i] = << >>]
  /\ mu' = Free
  /\ wg' = [wg EXCEPT ![c] = @ - 1]
  /\ wpc' = [wpc EXCEPT ![c][i] = "done"]
  /\ UNCHANGED << percent, errMsg, uiVars, wtmp, aggVars, cycle, proc >>

\* ---- Update: tickMsg -------------------------------------------------------
TickLock ==
  /\ proc = "running"
  /\ UNCHANGED << linkVars, albumVars >>
  /\ uipc = "idle"
  /\ ticksPending > 0
  /\ ticksHandled < MaxTicks
  /\ mu = Free
  /\ mu' = UI
  /\ uitmp' = percent
  /\ ticksPending' = ticksPending - 1
  /\ ticksHandled' = ticksHandled + 1
  /\ uipc' = "tickWr"
  /\ UNCHANGED << shared, loading, workerVars, aggVars, wg, cycle,
                  proc >>

TickWrite ==
  /\ proc = "running"
  /\ UNCHANGED << linkVars, albumVars >>
  /\ uipc = "tickWr"
  /\ percent' = uitmp + TickInc
  /\ uitmp' = 0
  /\ mu' = Free
  /\ uipc' = "tickTest"
  /\ UNCHANGED << content, errMsg, loading, ticksPending,
                  ticksHandled, workerVars, aggVars, wg, cycle, proc >>

TickTest ==
  /\ proc = "running"
  /\ UNCHANGED << linkVars, albumVars >>
  /\ uipc = "tickTest"
  /\ IF percent >= Full
       THEN /\ loading' = FALSE
            /\ uipc' = "tickView"
            /\ UNCHANGED ticksPending
       ELSE /\ ticksPending' = ticksPending + 1
            /\ uipc' = "idle"
            /\ UNCHANGED loading
  /\ UNCHANGED << shared, uitmp, ticksHandled, mu, workerVars,
                  aggVars, wg, cycle, proc >>

TickView ==
  /\ proc = "running"
  /\ UNCHANGED << linkVars, albumVars >>
  /\ uipc = "tickView"
  /\ uipc' = "idle"
  /\ UNCHANGED << shared, loading, uitmp, ticksPending, ticksHandled, mu,
                  workerVars, aggVars, wg, cycle, proc >>

\* ---- Update: ctrl+r --------------------------------------------------------
\* Calls of cycle c that have been dispatched, or are about to be, and have
\* not returned.  The handler has no such test: SumInFlight <= MaxStale in
\* RefreshReset bounds how early the key is pressed, as MaxRefresh bounds
\* how often.
InFlight(c) ==
  IF apc[c] = "start"
    THEN NumSearches
    ELSE Cardinality({i \in Workers :
                        wpc[c][i] \notin {"none", "done", "failed"}})

RECURSIVE SumInFlight(_)
SumInFlight(c) == IF c = 0 THEN 0 ELSE InFlight(c) + SumInFlight(c - 1)

RefreshReset ==
  /\ proc = "running"
  /\ UNCHANGED << linkVars, albumVars >>
  /\ uipc = "idle"
  /\ cycle < MaxCycles
  /\ SumInFlight(MaxCycles) <= MaxStale
  /\ loading' = TRUE
  /\ percent' = 0
  /\ uipc' = "refContent"
  /\ UNCHANGED << content, errMsg, uitmp, ticksPending,
                  ticksHandled, mu, workerVars, aggVars, wg, cycle, proc >>

RefreshContent ==
  /\ proc = "running"
  /\ UNCHANGED << linkVars, albumVars >>
  /\ uipc = "refContent"
  /\ content' = << >>
  /\ uipc' = "refSpawn"
  /\ UNCHANGED << percent, errMsg, loading, uitmp, ticksPending,
                  ticksHandled, mu, workerVars, aggVars, wg, cycle, proc >>

RefreshSpawn ==
  /\ proc = "running"
  /\ UNCHANGED << linkVars, albumVars >>
  /\ uipc = "refSpawn"
  /\ cycle' = cycle + 1
  /\ apc' = [apc EXCEPT ![cycle + 1] = "start"]
  /\ ticksPending' = ticksPending + 1
  /\ uipc' = "idle"
  /\ UNCHANGED << shared, loading, uitmp, ticksHandled, mu,
                  workerVars, adoc, wg, proc >>

RefreshExit ==
  /\ proc = "running"
  /\ UNCHANGED << linkVars, albumVars >>
  /\ uipc = "refSpawn"
  /\ proc' = "exit1"
  /\ UNCHANGED << shared, uiVars, mu, workerVars, aggVars, wg, cycle >>

\* ---- Update: ctrl+c --------------------------------------------------------
Quit ==
  /\ proc = "running"
  /\ UNCHANGED << linkVars, albumVars >>
  /\ uipc = "idle"
  /\ proc' = "quit"
  /\ UNCHANGED << shared, uiVars, mu, workerVars, aggVars, wg, cycle >>

\* ---- the program -----------------------------------------------------------
AggStep(c) == Dispatch(c) \/ Join(c) \/ LinksLock(c) \/ LinksAppend(c)

WorkerStep(c, i) ==
  \/ CallFail(c, i) \/ FailWrite(c, i)
  \/ CallOk(c, i) \/ OkWritePercent(c, i) \/ OkReadContent(c, i)
  \/ OkWriteContent(c, i)

Update ==
  \/ TickLock \/ TickWrite \/ TickTest \/ TickView
  \/ RefreshReset \/ RefreshContent \/ RefreshSpawn \/ RefreshExit
  \/ Quit

Next ==
  \/ \E c \in Cycles : AggStep(c)
  \/ \E c \in Cycles : \E i \in Workers : WorkerStep(c, i)
  \/ Update

Spec == Init /\ [][Next]_vars

\* ---- getInfo: link tokens ---------------------------------------------------
MaxNameLen == 5          \* longest name that is explored

Letters ==
  { "a", "b", "c", "d", "e", "f", "g", "h", "i", "j", "k", "l", "m", "n",
    "o", "p", "q", "r", "s", "t", "u", "v", "w", "x", "y", "z",
    "A", "B", "C", "D", "E", "F", "G", "H", "I", "J", "K", "L", "M", "N",
    "O", "P", "Q", "R", "S", "T", "U", "V", "W", "X", "Y", "Z" }
Digits == { "0", "1", "2", "3", "4", "5", "6", "7", "8", "9" }
\* the complement of the class of regexp.Compile("[^a-zA-Z0-9]+")
Alnum == Letters \cup Digits

\* strings.ReplaceAll(s, " ", "+")
ReplaceSpaces(s) == [k \in 1..Len(s) |-> IF s[k] = " " THEN "+" ELSE s[k]]

RECURSIVE SkipRun(_)
SkipRun(s) ==
  IF s = << >> \/ Head(s) \in Alnum THEN s ELSE SkipRun(Tail(s))

\* the pattern without its +: every character replaced on its own
ReplaceEach(s) == [k \in 1..Len(s) |-> IF s[k] \in Alnum THEN s[k] ELSE "+"]

\* reg.ReplaceAllString(s, "+")
RECURSIVE ReplaceRuns(_)
ReplaceRuns(s) ==
  IF s = << >> THEN << >>
  ELSE IF Head(s) \in Alnum
    THEN << Head(s) >> \o ReplaceRuns(Tail(s))
    ELSE << "+" >> \o ReplaceRuns(SkipRun(Tail(s)))

NameAlphabet == { "A", "C", "D", "k", "9", " ", "+", "/" }
ACDC == << "A", "C", "/", "D", "C" >>
BackInBlack ==
  << "B", "a", "c", "k", " ", "I", "n", " ", "B", "l", "a", "c", "k" >>
Names ==
  UNION { [1..n -> NameAlphabet] : n \in 0..MaxNameLen } \cup { BackInBlack }

LinkInit ==
  /\ ProgramInit
  /\ AlbumIdle
  /\ name \in Names
  /\ nameQuery = << >>
  /\ qpc = "raw"

SpacesToPlus ==
  /\ qpc = "raw"
  /\ nameQuery' = ReplaceSpaces(name)
  /\ qpc' = "plus"
  /\ UNCHANGED << programVars, albumVars, name >>

CollapseRuns ==
  /\ qpc = "plus"
  /\ nameQuery' = ReplaceRuns(nameQuery)
  /\ qpc' = "done"
  /\ UNCHANGED << programVars, albumVars, name >>

LinkNext == SpacesToPlus \/ CollapseRuns

LinkSpec == LinkInit /\ [][LinkNext]_vars

\* ---- getSpotifyTrackInfo: album name --------------------------------------
MaxParts == 3            \* fragments an explored album name is made of

UpperCase ==
  << "A", "B", "C", "D", "E", "F", "G", "H", "I", "J", "K", "L", "M", "N",
     "O", "P", "Q", "R", "S", "T", "U", "V", "W", "X", "Y", "Z" >>
LowerCase ==
  << "a", "b", "c", "d", "e", "f", "g", "h", "i", "j", "k", "l", "m", "n",
     "o", "p", "q", "r", "s", "t", "u", "v", "w", "x", "y", "z" >>

LowerOf(ch) ==
  IF \E k \in 1..Len(UpperCase) : UpperCase[k] = ch
    THEN LowerCase[CHOOSE k \in 1..Len(UpperCase) : UpperCase[k] = ch]
    ELSE ch

\* strings.ToLower
ToLower(s) == [k \in 1..Len(s) |-> LowerOf(s[k])]

HasPrefix(s, old) == Len(s) >= Len(old) /\ SubSeq(s, 1, Len(old)) = old

\* strings.Replace(s, old, "", 1): the first occurrence only
RECURSIVE RemoveFirst(_, _)
RemoveFirst(s, old) ==
  IF Len(s) < Len(old) THEN s
  ELSE IF HasPrefix(s, old)
    THEN SubSeq(s, Len(old) + 1, Len(s))
    ELSE << Head(s) >> \o RemoveFirst(Tail(s), old)

\* strings.ReplaceAll(s, old, "")
RECURSIVE RemoveAll(_, _)
RemoveAll(s, old) ==
  IF Len(s) < Len(old) THEN s
  ELSE IF HasPrefix(s, old)
    THEN RemoveAll(SubSeq(s, Len(old) + 1, Len(s)), old)
    ELSE << Head(s) >> \o RemoveAll(Tail(s), old)

Deluxe ==
  << "d", "e", "l", "u", "x", "e" >>
ExpandedRemastered ==
  << "e", "x", "p", "a", "n", "d", "e", "d", " ", "e", "d", "i", "t", "i",
     "o", "n", " ", "-", " ", "r", "e", "m", "a", "s", "t", "e", "r", "e",
     "d" >>
BonusTracksEdition ==
  << "B", "o", "n", "u", "s", " ", "T", "r", "a", "c", "k", "s", " ", "E",
     "d", "i", "t", "i", "o", "n" >>

Fragments ==
  {
    << "A", "b", "b", "e", "y", " ", "R", "o", "a", "d", " ", "(" >>,
    << "D", "e", "l", "u", "x", "e" >>,
    << " ", "E", "d", "i", "t", "i", "o", "n", ")" >>,
    << "d", "e" >>,
    << "l", "u", "x", "e" >>,
    << "E", "x", "p", "a", "n", "d", "e", "d", " ", "E", "d", "i", "t",
       "i", "o", "n", " ", "-", " ", "R", "e", "m", "a", "s", "t", "e",
       "r", "e", "d" >>,
    << "B", "o", "n", "u", "s", " ", "T", "r", "a", "c", "k", "s", " ",
       "E", "d", "i" >>,
    << "t", "i", "o", "n" >>
  }

RECURSIVE Concat(_)
Concat(parts) ==
  IF parts = << >> THEN << >> ELSE Head(parts) \o Concat(Tail(parts))

PartLists == UNION { [1..n -> Fragments] : n \in 0..MaxParts }
AlbumNames == { Concat(parts) : parts \in PartLists }

AlbumInit ==
  /\ ProgramInit
  /\ LinkIdle
  /\ metaAlbumName \in AlbumNames
  /\ albumName = << >>
  /\ tpc = "raw"

StripDeluxe ==
  /\ tpc = "raw"
  /\ albumName' = RemoveAll(ToLower(metaAlbumName), Deluxe)
  /\ tpc' = "l98"
  /\ UNCHANGED << programVars, linkVars, metaAlbumName >>

StripExpanded ==
  /\ tpc = "l98"
  /\ albumName' = RemoveAll(albumName, ExpandedRemastered)
  /\ tpc' = "l99"
  /\ UNCHANGED << programVars, linkVars, metaAlbumName >>

StripBonus ==
  /\ tpc = "l99"
  /\ albumName' = RemoveAll(ToLower(albumName), ToLower(BonusTracksEdition))
  /\ tpc' = "done"
  /\ UNCHANGED << programVars, linkVars, metaAlbumName >>

AlbumNext == StripDeluxe \/ StripExpanded \/ StripBonus

AlbumSpec == AlbumInit /\ [][AlbumNext]_vars

\* ---- vocabulary of the properties ------------------------------------------
Started(c) == apc[c] # "none"
JoinPassed(c) == apc[c] \in {"links", "linksWr", "done"}
Returned(c, i) == wpc[c][i] \in {"done", "failed"}
AllSucceeded(c) == \A i \in Workers : wpc[c][i] = "done"
Failures(c) == Cardinality({i \in Workers : wpc[c][i] = "failed"})
JoinStep(c) == apc[c] = "wait" /\ apc'[c] = "links"
LinksStep(c) == apc[c] = "linksWr" /\ apc'[c] = "done"

Titles(doc) == [k \in 1..Len(doc) |-> doc[k].title]
SectionCount(doc) ==
  Cardinality({k \in 1..Len(doc) : doc[k].title # LinksTitle})

\* ---- C1 -------------------------------------------------------------------
\* C1: whenever a getInfo passes wg.Wait, percent is exactly 1.0, whichever
\* of its calls failed.
C1_FullAtJoin ==
  [][\A c \in Cycles : JoinStep(c) => percent' = Full]_vars

\* ---- C2 -------------------------------------------------------------------
\* the next instruction of the task reads or writes percent or content
\* without calling m.mu.Lock first
WorkerAtAccess(c, i) == wpc[c][i] \in {"failWr", "wrP", "rdC", "wrC"}
AggAtAccess(c) == apc[c] = "linksWr"
UIAtAccess == uipc \in {"tickWr", "tickTest", "tickView", "refContent"}

\* C2: every read and write of percent and content is made by a task that
\* holds m.mu.
C2_AccessUnderMutex ==
  /\ \A c \in Cycles : \A i \in Workers : WorkerAtAccess(c, i) => mu = W(c, i)
  /\ \A c \in Cycles : AggAtAccess(c) => mu = Agg(c)
  /\ UIAtAccess => mu = UI

\* ---- C3 -------------------------------------------------------------------
\* C3: percent stays within [0, 1] in every reachable state.
C3_PercentInUnitInterval == percent >= 0 /\ percent <= Full

\* ---- C4 -------------------------------------------------------------------
\* C4: a failed call adds to percent what a successful call adds.
C4_FailureAddsSuccessInc ==
  [][\A c \in Cycles : \A i \in Workers :
       (wpc[c][i] = "failWr" /\ wpc'[c][i] = "failed")
         => percent' = wtmp[c][i] + SuccessInc]_vars

\* ---- C5 -------------------------------------------------------------------
WellFormedDoc(doc) ==
  /\ Len(doc) = NumSearches + 1
  /\ doc[Len(doc)].title = LinksTitle
  /\ \A i \in Workers :
       Cardinality({k \in 1..NumSearches : doc[k].title = searches[i]}) = 1

\* C5: when a cycle whose three calls all succeeded appends its Links block,
\* the document is the three sections, each once, followed by Links.
C5_SuccessfulDocument ==
  [][\A c \in Cycles :
       (LinksStep(c) /\ AllSucceeded(c)) => WellFormedDoc(content')]_vars

\* ---- C6 -------------------------------------------------------------------
\* C6: when the tick handler has seen percent >= 1.0 and builds the viewport,
\* the current cycle has appended its Links block; and the UI is loading
\* while a call of the current cycle is outstanding.
C6_RenderedDocIsFinal ==
  /\ uipc = "tickView" => apc[cycle] = "done"
  /\ (\E i \in Workers : wpc[cycle][i] = "call") => loading

\* ---- C7 -------------------------------------------------------------------
\* C7: at the join of a cycle with k >= 1 failed calls the document holds
\* N - k sections and errMsg is set.
C7_PartialFailureDocument ==
  [][\A c \in Cycles :
       (JoinStep(c) /\ Failures(c) >= 1)
         => /\ SectionCount(content') = NumSearches - Failures(c)
            /\ errMsg' # ""]_vars

\* ---- C8 -------------------------------------------------------------------
\* Scheduling: every goroutine that can take a step eventually takes one, a
\* remote call eventually returns (CallFail or CallOk), and sync.Mutex hands
\* the lock to a waiting goroutine.  Key presses are not forced.
Fairness ==
  /\ \A c \in Cycles : WF_vars(Dispatch(c) \/ Join(c) \/ LinksAppend(c))
  /\ \A c \in Cycles : SF_vars(LinksLock(c))
  /\ \A c \in Cycles : \A i \in Workers : WF_vars(WorkerStep(c, i))
  /\ WF_vars(TickWrite)

\* One aggregation cycle with its polling loop: the program without the
\* ctrl+r handler.
NextCycle ==
  \/ \E c \in Cycles : AggStep(c)
  \/ \E c \in Cycles : \E i \in Workers : WorkerStep(c, i)
  \/ TickLock \/ TickWrite \/ TickTest \/ TickView
  \/ Quit

LiveSpec == Init /\ [][NextCycle]_vars /\ Fairness

Unreturned(c) ==
  Cardinality({i \in Workers : wpc[c][i] \notin {"done", "failed"}})

\* C8: while the process runs, every started cycle appends its Links block,
\* and until then its WaitGroup counts exactly the calls that have not
\* returned.
C8_CycleCompletes ==
  /\ [](\A c \in Cycles : apc[c] = "wait" => wg[c] = Unreturned(c))
  /\ \A c \in Cycles : Started(c) ~> (apc[c] = "done" \/ proc # "running")

C8_Witness == \E c \in Cycles : Failures(c) >= 1 /\ apc[c] = "done"

\* ---- C9 -------------------------------------------------------------------
FirstRecord(c, i) ==
  /\ \A j \in Workers : wpc[c][j] = "call"
  /\ wpc'[c][i] \in {"wrP", "failWr"}

\* C9: the first call of a cycle started by ctrl+r that records its result
\* starts from percent = 0 and an empty document.
C9_FirstRecordSeesReset ==
  [][\A c \in Cycles : \A i \in Workers :
       (c > 1 /\ FirstRecord(c, i)) => (percent = 0 /\ content = << >>)]_vars

\* ---- C10 ------------------------------------------------------------------
\* C10: a cycle started by ctrl+r in which every call succeeded ends with an
\* empty errMsg.
C10_RefreshDiscardsError ==
  \A c \in Cycles :
    (c > 1 /\ c = cycle /\ apc[c] = "done" /\ AllSucceeded(c)) => errMsg = ""

\* ---- C11 -------------------------------------------------------------------
\* C11: once the program has started, a failed track resolution never ends
\* the process: only the refresh is abandoned.
C11_RefreshFailureKeepsRunning == proc # "exit1"

\* ---- C12 -------------------------------------------------------------------
ResetStep == uipc = "idle" /\ uipc' = "refContent"

\* C12: no step lowers percent, except the reset of ctrl+r.
C12_PercentMonotonic == [][percent' >= percent \/ ResetStep]_vars

\* ---- C15 -------------------------------------------------------------------
TickPcs == {"tickWr", "tickTest", "tickView"}
TickStep == uipc # uipc' /\ (uipc \in TickPcs \/ uipc' \in TickPcs)

\* C15: handling a tick changes neither percent nor content.
C15_TickOnlyReads ==
  [][TickStep => (percent' = percent /\ content' = content)]_vars

\* ---- C16 -------------------------------------------------------------------
PercentWriteStep(c, i) ==
  \/ wpc[c][i] = "wrP" /\ wpc'[c][i] = "rdC"
  \/ wpc[c][i] = "failWr" /\ wpc'[c][i] = "failed"

\* C16: the document holds only blocks of the cycle started last, and a call
\* of an earlier cycle never raises percent.
C16_OnlyCurrentCycle ==
  /\ [](\A k \in 1..Len(content) : content[k].cyc = cycle)
  /\ [][\A c \in Cycles : \A i \in Workers :
          (c < cycle /\ PercentWriteStep(c, i)) => percent' <= percent]_vars

\* ---- C17 -------------------------------------------------------------------
\* tick chains alive: timers pending, and the handler that will re-arm one
TickChains ==
  ticksPending + (IF uipc \in {"tickWr", "tickTest"} THEN 1 ELSE 0)

\* C17: at most one tick chain is alive, and none once loading is over.
C17_SingleTickChain ==
  /\ TickChains <= 1
  /\ ~loading => TickChains = 0

\* ---- C18 -------------------------------------------------------------------
\* The bubbletea loop runs a handler it has started to its end.
UIFairness == WF_vars(TickTest) /\ WF_vars(TickView)

UILiveSpec == LiveSpec /\ UIFairness

WorkerEdges ==
  { << "none", "call" >>, << "call", "failWr" >>, << "failWr", "failed" >>,
    << "call", "wrP" >>, << "wrP", "rdC" >>, << "rdC", "wrC" >>,
    << "wrC", "done" >> }
AggEdges ==
  { << "none", "start" >>, << "start", "wait" >>, << "wait", "links" >>,
    << "links", "linksWr" >>, << "linksWr", "done" >> }

DispatchStep(c) == apc[c] = "start" /\ apc'[c] = "wait"
Copies(doc, b) == Cardinality({k \in 1..Len(doc) : doc[k] = b})

\* C19: a cycle issues its three calls once, together, and never again; a
\* call goes through one return path, makes one addition to percent on it,
\* and leaves at most one section in the document.
C19_ExactlyNCallsNoRetry ==
  /\ [][\A c \in Cycles :
          /\ apc'[c] # apc[c] => << apc[c], apc'[c] >> \in AggEdges
          /\ DispatchStep(c) =>
               /\ wg'[c] = NumSearches
               /\ \A i \in Workers : wpc[c][i] = "none" /\ wpc'[c][i] = "call"
          /\ \A i \in Workers :
               /\ wpc'[c][i] # wpc[c][i]
                    => << wpc[c][i], wpc'[c][i] >> \in WorkerEdges
               /\ (wpc'[c][i] # wpc[c][i] /\ wpc'[c][i] = "call")
                    => DispatchStep(c)
               /\ (wpc'[c][i] # wpc[c][i] /\ ~PercentWriteStep(c, i))
                    => percent' = percent
               /\ (wpc[c][i] = "wrP" /\ wpc'[c][i] = "rdC")
                    => percent' = wtmp[c][i] + SuccessInc
               /\ (wpc[c][i] = "failWr" /\ wpc'[c][i] = "failed")
                    => percent' = wtmp[c][i] + FailInc]_vars
  /\ [](\A c \in Cycles : \A i \in Workers :
          /\ Copies(content, Section(c, i)) <= 1
          /\ wpc[c][i] \in {"none", "call", "failWr", "failed"}
               => Copies(content, Section(c, i)) = 0)

C19_Witness ==
  \E c \in Cycles :
    /\ apc[c] = "done"
    /\ Failures(c) >= 1
    /\ \E i \in Workers : Copies(content, Section(c, i)) = 1

\* C13: a sanitized link token holds only characters of [A-Za-z0-9+] and never
\* two '+' in a row; "AC/DC" gives "AC+DC", "Back In Black" "Back+In+Black".
TokenChars == Alnum \cup { "+" }

C13_LinkTokenClean ==
  qpc = "done" =>
    /\ \A k \in 1..Len(nameQuery) : nameQuery[k] \in TokenChars
    /\ \A k \in 1..(Len(nameQuery) - 1) :
         ~(nameQuery[k] = "+" /\ nameQuery[k + 1] = "+")
    /\ name = ACDC => nameQuery = << "A", "C", "+", "D", "C" >>
    /\ name = BackInBlack =>
         nameQuery = << "B", "a", "c", "k", "+", "I", "n", "+",
                        "B", "l", "a", "c", "k" >>

\* a name with a space next to punctuation has been sanitized
C13_Witness ==
  /\ qpc = "done"
  /\ \E k \in 1..(Len(name) - 1) : name[k] = " " /\ name[k + 1] = "/"

\* C14: the album name the program keeps is the raw name in lower case with
\* the occurrences of "deluxe", then of "expanded edition - remastered", then
\* of "bonus tracks edition" cut out, each found in one pass from the left
\* and the rest left where it was; "Abbey Road (Deluxe Edition)" becomes
\* "abbey road ( edition)".
OccursAt(s, old, p) ==
  /\ p + Len(old) - 1 <= Len(s)
  /\ \A k \in 1..Len(old) : s[p + k - 1] = old[k]

\* where one pass from position p finds old, each find starting after the last
RECURSIVE Finds(_, _, _)
Finds(s, old, p) ==
  LET here == { q \in p..Len(s) : OccursAt(s, old, q) }
  IN  IF here = {} THEN {}
      ELSE LET q == CHOOSE x \in here : \A y \in here : x <= y
           IN  { q } \cup Finds(s, old, q + Len(old))

CutOut(s, old) ==
  LET cut == { k \in 1..Len(s) :
                 \E q \in Finds(s, old, 1) : q <= k /\ k < q + Len(old) }
      kept == (1..Len(s)) \ cut
      At(j) == CHOOSE k \in kept : Cardinality({ m \in kept : m <= k }) = j
  IN  [j \in 1..Cardinality(kept) |-> s[At(j)]]

ReferenceAlbum(raw) ==
  CutOut(CutOut(CutOut(ToLower(raw), Deluxe), ExpandedRemastered),
         ToLower(BonusTracksEdition))

AbbeyRoadDeluxe ==
  << "A", "b", "b", "e", "y", " ", "R", "o", "a", "d", " ", "(", "D", "e",
     "l", "u", "x", "e", " ", "E", "d", "i", "t", "i", "o", "n", ")" >>

C14_AlbumNormalized ==
  tpc = "done" =>
    /\ albumName = ReferenceAlbum(metaAlbumName)
    /\ metaAlbumName = AbbeyRoadDeluxe =>
         albumName =
           << "a", "b", "b", "e", "y", " ", "r", "o", "a", "d", " ", "(",
              " ", "e", "d", "i", "t", "i", "o", "n", ")" >>

\* "Abbey Road (Deluxe Edition)" has been normalized
C14_Witness == tpc = "done" /\ metaAlbumName = AbbeyRoadDeluxe

====
